---- MODULE Spec2Model ----
(***************************************************************************)
(* Model of eas/queue_client.go: the attribute cache of QueueClient        *)
(* (getAttr / reset / obtainAttr over sync.Once) and the streaming watch    *)
(* subsystem (websocketWatcher, reconnectWatcher, httpWatcher, WatchByTag). *)
(***************************************************************************)
EXTENDS Integers, Sequences, FiniteSets, TLC

(***************************************************************************)
(* Bounds of the model.                                                    *)
(***************************************************************************)
\* number of goroutines that call getAttr on one QueueClient
NumCallers == 2
\* total number of getAttr calls made in one behaviour
MaxCalls == 3

Callers == 1..NumCallers

(***************************************************************************)
(* Attribute cache: state of one QueueClient.                              *)
(***************************************************************************)
VARIABLES
    attr,       \* q.attr: the cached types.Attributes (NilAttr when nil)
    once,       \* q.once: [done, locked] of the sync.Once
    fatal,      \* the runtime threw "sync: unlock of unlocked mutex"
    cpc,        \* per caller: position inside getAttr
    cforce,     \* per caller: the force argument of the call
    cerr,       \* per caller: the err variable of getAttr
    cret,       \* per caller: the snapshot the call returned
    cpath,      \* per caller: how the call went: none, fast, waited or fetch
    ccalled,    \* per caller: has completed at least one call
    nfetch,     \* number of obtainAttr round trips started so far
    ncalls,     \* number of getAttr calls started so far
    anyForce,   \* some call so far had force = true
    anyFail     \* some obtainAttr so far returned an error

attrVars == <<attr, once, fatal, cpc, cforce, cerr, cret, cpath, ccalled,
              nfetch, ncalls, anyForce, anyFail>>

(***************************************************************************)
(* Streaming watch: state of one WatchByTag call and the watcher it        *)
(* returns.                                                                *)
(***************************************************************************)
VARIABLES
    WebsocketWatch, \* q.WebsocketWatch: push (websocket) or pull (http) watch
    wpc,            \* WatchByTag: init, push, pull (a watcher was returned), failed
    userCancelled,  \* the caller has called Close or cancelled its context
    retryCancel,    \* the caller's cancellation fired with reconnectWatcher.run in its retry loop
    closeMid,       \* Close calls that are between their two statements
    ctxDone,        \* ctx of WatchByTag (context.WithCancel(ctx)) is done
    wDone,          \* wCtx of newReconnectWatcher (of Background) is done
    rpc,            \* per transport instance: position of websocketWatcher.run
    rdf,            \* per transport instance: the df the receive loop holds
    kpc,            \* per transport instance: position of the keepalive goroutine
    conn,           \* per transport instance: w.conn: none, open, closed
    ch,             \* per transport instance: w.ch, the delivery channel
    chCloses,       \* per transport instance: close(w.ch) executed so often
    rcvd,           \* per transport instance: raw messages Receive returned
    sent,           \* per transport instance: frames put on w.ch
    readErr,        \* per transport instance: Receive returned an error
    nrecv,          \* raw messages / units received so far, all instances
    cur,            \* reconnectWatcher.watcher: the instance it points to
    spc,            \* position of reconnectWatcher.run
    sdf,            \* the df reconnectWatcher.run holds
    tick,           \* ticker.C of the retry loop holds a tick
    userChan,       \* reconnectWatcher.userChan
    userCloses,     \* close(w.userChan) executed so often
    dialAfterCancel,\* a dial was started after the caller cancelled in the retry state
    out,            \* frames the consumer has taken from FrameChan()
    hpc,            \* position of httpWatcher.run
    hdf,            \* the df httpWatcher.run holds
    hbuf,           \* parts of a unit held in buf of httpWatcher.run
    hch,            \* httpWatcher.ch
    hchCloses,      \* close(h.ch) executed so often
    rdCloses,       \* h.reader.Close() called so often
    gpc,            \* goroutine of httpWatcher.run that waits for ctx.Done()
    hCloseN,        \* httpWatcher.Close calls started
    hCloseMid       \* httpWatcher.Close calls between their two statements

callerVars == <<userCancelled, retryCancel, closeMid>>
ctxVars == <<ctxDone, wDone>>
instVars == <<rpc, rdf, kpc, conn, ch, chCloses, rcvd, sent, readErr, nrecv>>
supVars == <<cur, spc, sdf, tick, userChan, userCloses, dialAfterCancel>>
pullVars == <<hpc, hdf, hbuf, hch, hchCloses, rdCloses, gpc, hCloseN, hCloseMid>>
watchVars == <<WebsocketWatch, wpc, callerVars, ctxVars, instVars, supVars, out,
               pullVars>>

(***************************************************************************)
(* Operations of the client that put the caller's identity on a request.   *)
(***************************************************************************)
VARIABLES
    cop,        \* per caller: the operation that is running: none, attrs, sync, pull, push
    csent,      \* per caller: its last operation sent its request or handshake
    copErr,     \* per caller: its last operation returned an error
    put         \* one PutWithPriority call: position, response and results

opVars == <<cop, csent, copErr, put>>

vars == <<attrVars, watchVars, opVars>>

\* logical keys a snapshot may hold (types.UserIdentifyHeader, GroupIdentifyHeader)
ServerKeys == {{}, {"uid"}, {"uid", "gid"}}

\* the nil map; ver is the fetch that produced the snapshot (0: none)
NilAttr == [nil |-> TRUE, ver |-> 0, keys |-> {}]

\* len(q.attr)
AttrLen(a) == Cardinality(a.keys)

ZeroOnce == [done |-> FALSE, locked |-> FALSE]

\* caller c is at one of the positions ps and the process has not been thrown
At(c, ps) == ~fatal /\ cpc[c] \in ps

InitAttr ==
    /\ attr = NilAttr
    /\ once = ZeroOnce
    /\ fatal = FALSE
    /\ cpc = [c \in Callers |-> "idle"]
    /\ cforce = [c \in Callers |-> FALSE]
    /\ cerr = [c \in Callers |-> FALSE]
    /\ cret = [c \in Callers |-> NilAttr]
    /\ cpath = [c \in Callers |-> "none"]
    /\ ccalled = [c \in Callers |-> FALSE]
    /\ nfetch = 0
    /\ ncalls = 0
    /\ anyForce = FALSE
    /\ anyFail = FALSE

\* entry of getAttr(force): var err error
GetAttrEnter(c, force) ==
    /\ At(c, {"idle"})
    /\ ncalls < MaxCalls
    /\ ncalls' = ncalls + 1
    /\ cpc' = [cpc EXCEPT ![c] = "check"]
    /\ cforce' = [cforce EXCEPT ![c] = force]
    /\ cerr' = [cerr EXCEPT ![c] = FALSE]
    /\ cpath' = [cpath EXCEPT ![c] = "none"]
    /\ anyForce' = (anyForce \/ force)
    /\ UNCHANGED <<attr, once, fatal, cret, ccalled, nfetch, anyFail>>

\* a caller enters getAttr(force)
GetAttrCall(c, force) ==
    /\ GetAttrEnter(c, force)
    /\ UNCHANGED <<watchVars, opVars>>

\* branch taken after reading len(q.attr) and force
CheckBranch(a, force) ==
    IF AttrLen(a) = 0 THEN "onceFast"
    ELSE IF force THEN "fetchF"
    ELSE "ret"

\* if len(q.attr) == 0 {...} else if force {...}
GetAttrCheck(c) ==
    /\ At(c, {"check"})
    /\ cpc' = [cpc EXCEPT ![c] = CheckBranch(attr, cforce[c])]
    /\ UNCHANGED <<attr, once, fatal, cforce, cerr, cret, cpath, ccalled,
                   nfetch, ncalls, anyForce, anyFail>>
    /\ UNCHANGED <<watchVars, opVars>>

\* sync.Once.Do fast path: if o.done.Load() == 0 { o.doSlow(f) }
OnceFast(c) ==
    /\ At(c, {"onceFast"})
    /\ cpc' = [cpc EXCEPT ![c] = IF once.done THEN "ret" ELSE "lock"]
    /\ cpath' = [cpath EXCEPT ![c] = IF once.done THEN "fast" ELSE @]
    /\ UNCHANGED <<attr, once, fatal, cforce, cerr, cret, ccalled,
                   nfetch, ncalls, anyForce, anyFail>>
    /\ UNCHANGED <<watchVars, opVars>>

\* doSlow: o.m.Lock()
OnceLock(c) ==
    /\ At(c, {"lock"})
    /\ ~once.locked
    /\ once' = [once EXCEPT !.locked = TRUE]
    /\ cpc' = [cpc EXCEPT ![c] = "slow"]
    /\ UNCHANGED <<attr, fatal, cforce, cerr, cret, cpath, ccalled,
                   nfetch, ncalls, anyForce, anyFail>>
    /\ UNCHANGED <<watchVars, opVars>>

\* a doSlow that does not look at done again under the lock
SlowBranchNoRecheck(o) == "fetchO"

\* position after the check under the lock
SlowBranch(o) == IF o.done THEN "unlock" ELSE "fetchO"

\* doSlow: if o.done.Load() == 0 { defer o.done.Store(1); f() }
OnceSlow(c) ==
    /\ At(c, {"slow"})
    /\ cpc' = [cpc EXCEPT ![c] = SlowBranch(once)]
    /\ cpath' = [cpath EXCEPT ![c] = IF once.done THEN "waited" ELSE @]
    /\ UNCHANGED <<attr, once, fatal, cforce, cerr, cret, ccalled,
                   nfetch, ncalls, anyForce, anyFail>>
    /\ UNCHANGED <<watchVars, opVars>>

\* obtainAttr sends the GET ?_attrs_=true request
ObtainStart(c) ==
    /\ At(c, {"fetchO", "fetchF"})
    /\ nfetch' = nfetch + 1
    /\ cpath' = [cpath EXCEPT ![c] = "fetch"]
    /\ cpc' = [cpc EXCEPT ![c] = IF cpc[c] = "fetchO" THEN "waitO" ELSE "waitF"]
    /\ UNCHANGED <<attr, once, fatal, cforce, cerr, cret, ccalled,
                   ncalls, anyForce, anyFail>>
    /\ UNCHANGED <<watchVars, opVars>>

\* position after obtainAttr returned
AfterObtain(p) == IF p = "waitO" THEN "storeDone" ELSE "ret"

\* obtainAttr: status 200 and the body decodes: q.attr = attr; return nil
ObtainOk(c, keys) ==
    /\ At(c, {"waitO", "waitF"})
    /\ attr' = [nil |-> FALSE, ver |-> nfetch, keys |-> keys]
    /\ cpc' = [cpc EXCEPT ![c] = AfterObtain(cpc[c])]
    /\ UNCHANGED <<once, fatal, cforce, cerr, cret, cpath, ccalled,
                   nfetch, ncalls, anyForce, anyFail>>
    /\ UNCHANGED <<watchVars, opVars>>

\* obtainAttr: request, read, status or decode error: q.attr is not written
ObtainFail(c) ==
    /\ At(c, {"waitO", "waitF"})
    /\ cerr' = [cerr EXCEPT ![c] = TRUE]
    /\ anyFail' = TRUE
    /\ cpc' = [cpc EXCEPT ![c] = AfterObtain(cpc[c])]
    /\ UNCHANGED <<attr, once, fatal, cforce, cret, cpath, ccalled,
                   nfetch, ncalls, anyForce>>
    /\ UNCHANGED <<watchVars, opVars>>

\* doSlow: deferred o.done.Store(1)
OnceStoreDone(c) ==
    /\ At(c, {"storeDone"})
    /\ once' = [once EXCEPT !.done = TRUE]
    /\ cpc' = [cpc EXCEPT ![c] = "unlock"]
    /\ UNCHANGED <<attr, fatal, cforce, cerr, cret, cpath, ccalled,
                   nfetch, ncalls, anyForce, anyFail>>
    /\ UNCHANGED <<watchVars, opVars>>

\* doSlow: deferred o.m.Unlock(); unlocking an unlocked mutex is a fatal error
OnceUnlock(c) ==
    /\ At(c, {"unlock"})
    /\ IF once.locked
         THEN /\ once' = [once EXCEPT !.locked = FALSE]
              /\ fatal' = fatal
         ELSE /\ once' = once
              /\ fatal' = TRUE
    /\ cpc' = [cpc EXCEPT ![c] = "ret"]
    /\ UNCHANGED <<attr, cforce, cerr, cret, cpath, ccalled,
                   nfetch, ncalls, anyForce, anyFail>>
    /\ UNCHANGED <<watchVars, opVars>>

\* return q.attr, err: the result is evaluated before the deferred function runs
GetAttrReturn(c) ==
    /\ At(c, {"ret"})
    /\ cret' = [cret EXCEPT ![c] = attr]
    /\ cpc' = [cpc EXCEPT ![c] = "defer"]
    /\ UNCHANGED <<attr, once, fatal, cforce, cerr, cpath, ccalled,
                   nfetch, ncalls, anyForce, anyFail>>
    /\ UNCHANGED <<watchVars, opVars>>

\* the deferred function's condition: err != nil && len(q.attr) == 0
ResetCond(e, a) == e /\ AttrLen(a) = 0

\* deferred func of getAttr, with reset(): q.attr = nil; q.once = sync.Once{}
GetAttrDefer(c) ==
    /\ At(c, {"defer"})
    /\ IF ResetCond(cerr[c], attr)
         THEN /\ attr' = NilAttr
              /\ once' = ZeroOnce
         ELSE UNCHANGED <<attr, once>>
    /\ cpc' = [cpc EXCEPT ![c] = "idle"]
    /\ ccalled' = [ccalled EXCEPT ![c] = TRUE]
    /\ UNCHANGED <<fatal, cforce, cerr, cret, cpath,
                   nfetch, ncalls, anyForce, anyFail>>
    /\ UNCHANGED <<watchVars, opVars>>

NextAttr ==
    \E c \in Callers :
          \/ \E force \in BOOLEAN : GetAttrCall(c, force)
          \/ GetAttrCheck(c)
          \/ OnceFast(c)
          \/ OnceLock(c)
          \/ OnceSlow(c)
          \/ ObtainStart(c)
          \/ \E keys \in ServerKeys : ObtainOk(c, keys)
          \/ ObtainFail(c)
          \/ OnceStoreDone(c)
          \/ OnceUnlock(c)
          \/ GetAttrReturn(c)
          \/ GetAttrDefer(c)

(***************************************************************************)
(* Bounds of the watch model.                                              *)
(***************************************************************************)
\* transport instances one watcher creates (the first and its replacements)
MaxInst == 2
\* raw messages received in one behaviour, all instances together
MaxFrames == 3
\* capacity of w.ch and w.userChan in the model (make(chan ..., 100) in the code)
ChanCap == 1
\* Close calls that run on one watcher at the same time
MaxClose == 2

Insts == 1..MaxInst

\* types.DataFrame{}
ZeroFrame == [Index |-> 0, Message |-> ""]

\* w.decoder.Decode(data, &df): a well-formed message yields its frame, a
\* malformed one an error
Decode(data) ==
    IF data.ok THEN [err |-> FALSE, df |-> [Index |-> data.id, Message |-> ""]]
    ELSE [err |-> TRUE, df |-> ZeroFrame]

\* a receive loop that ends up sending nothing for a malformed message's text
RecvFrameNoMessage(data) == Decode(data).df

\* the frame the receive loop sends for a received message
RecvFrame(data) ==
    IF Decode(data).err
      THEN [Decode(data).df EXCEPT !.Message = "failed to decode message"]
      ELSE Decode(data).df

\* the frame the receive loop sends when Receive fails
ReadErrFrame == [ZeroFrame EXCEPT !.Message = "error reading message"]

\* the instance built by newReconnectWatcher has a context of its own
OwnScope(i) == i = 1

\* w.ctx.Done() of transport instance i
InstDone(i) == IF OwnScope(i) THEN wDone ELSE ctxDone

\* w.cancel() of transport instance i
InstCancel(i) ==
    IF OwnScope(i) THEN wDone' = TRUE /\ ctxDone' = ctxDone
    ELSE ctxDone' = TRUE /\ wDone' = wDone

InitWatch ==
    /\ WebsocketWatch \in BOOLEAN
    /\ wpc = "init"
    /\ userCancelled = FALSE
    /\ retryCancel = FALSE
    /\ closeMid = 0
    /\ ctxDone = FALSE
    /\ wDone = FALSE
    /\ rpc = [i \in Insts |-> "none"]
    /\ rdf = [i \in Insts |-> ZeroFrame]
    /\ kpc = [i \in Insts |-> "none"]
    /\ conn = [i \in Insts |-> "none"]
    /\ ch = [i \in Insts |-> <<>>]
    /\ chCloses = [i \in Insts |-> 0]
    /\ rcvd = [i \in Insts |-> <<>>]
    /\ sent = [i \in Insts |-> <<>>]
    /\ readErr = [i \in Insts |-> FALSE]
    /\ nrecv = 0
    /\ cur = 0
    /\ spc = "none"
    /\ sdf = ZeroFrame
    /\ tick = FALSE
    /\ userChan = <<>>
    /\ userCloses = 0
    /\ dialAfterCancel = FALSE
    /\ out = <<>>
    /\ hpc = "none"
    /\ hdf = ZeroFrame
    /\ hbuf = 0
    /\ hch = <<>>
    /\ hchCloses = 0
    /\ rdCloses = 0
    /\ gpc = "none"
    /\ hCloseN = 0
    /\ hCloseMid = 0

\* bodies of at most MaxBody characters are answered to PutWithPriority
MaxBody == 3

\* no PutWithPriority call made yet
NoPut == [pc |-> "idle", nsent |-> 0, replied |-> FALSE, status |-> 0, body |-> <<>>,
          rid |-> "", index |-> 0, requestId |-> "", err |-> FALSE, msg |-> <<>>]

InitOps ==
    /\ cop = [c \in Callers |-> "none"]
    /\ csent = [c \in Callers |-> FALSE]
    /\ copErr = [c \in Callers |-> FALSE]
    /\ put = NoPut

Init == InitAttr /\ InitWatch /\ InitOps

\* newWebsocketWatcher succeeded for instance i: the connection is open, run and
\* the keepalive goroutine are started
StartInstance(i) ==
    /\ rpc' = [rpc EXCEPT ![i] = "recv"]
    /\ kpc' = [kpc EXCEPT ![i] = "run"]
    /\ conn' = [conn EXCEPT ![i] = "open"]

\* an error return that leaves the derived context as it is
NoCancelOnError(done) == done

\* cancel() before an error return of WatchByTag: the derived context is done
CancelOnError(done) == TRUE

\* WatchByTag with WebsocketWatch: newReconnectWatcher returns an error, because
\* websocket.DialConfig failed or, with the connection made (dialed),
\* conn.NewFrameWriter did; no websocketWatcher and no reconnectWatcher is built
\* and no goroutine started; cancel(); return watcher (nil), err
WatchByTagDialFail(dialed) ==
    /\ wpc = "init"
    /\ WebsocketWatch
    /\ wpc' = "failedDial"
    /\ conn' = [conn EXCEPT ![1] = IF dialed THEN "open" ELSE @]
    /\ ctxDone' = CancelOnError(ctxDone)
    /\ UNCHANGED <<WebsocketWatch, callerVars, wDone, rpc, rdf, kpc, ch, chCloses,
                   rcvd, sent, readErr, nrecv, supVars, out>>
    /\ UNCHANGED <<attrVars, pullVars, opVars>>

\* WatchByTag without WebsocketWatch: httpClient.Do returns an error or the
\* status is not 200; cancel(); return nil, err before newHTTPWatcher
WatchByTagPullFail ==
    /\ wpc = "init"
    /\ ~WebsocketWatch
    /\ wpc' = "failedPull"
    /\ ctxDone' = CancelOnError(ctxDone)
    /\ UNCHANGED <<WebsocketWatch, callerVars, wDone, instVars, supVars, out, pullVars>>
    /\ UNCHANGED <<attrVars, opVars>>

\* WatchByTag returns an error before any connection attempt: tags.Validate,
\* NewConfig, NewRequestWithContext, getAttr(true) or withIdentity failed;
\* cancel() is called
WatchByTagFail ==
    /\ wpc = "init"
    /\ wpc' = "failed"
    /\ ctxDone' = TRUE
    /\ UNCHANGED <<WebsocketWatch, callerVars, wDone, instVars, supVars, out>>
    /\ UNCHANGED <<attrVars, pullVars, opVars>>

\* WatchByTag with WebsocketWatch: newReconnectWatcher dials the first instance
\* under wCtx and starts reconnectWatcher.run
WatchByTagPush ==
    /\ wpc = "init"
    /\ WebsocketWatch
    /\ wpc' = "push"
    /\ StartInstance(1)
    /\ cur' = 1
    /\ spc' = "recv"
    /\ UNCHANGED <<WebsocketWatch, callerVars, ctxVars, rdf, ch, chCloses, rcvd, sent,
                   readErr, nrecv, sdf, tick, userChan, userCloses,
                   dialAfterCancel, out>>
    /\ UNCHANGED <<attrVars, pullVars, opVars>>

\* the caller cancels the context it passed to WatchByTag: the context derived
\* from it by context.WithCancel(ctx) is done, now or as soon as it is made
CtxCancel ==
    /\ wpc \in {"push", "pull"}
    /\ ~ctxDone
    /\ userCancelled' = TRUE
    /\ retryCancel' = (retryCancel \/ (~userCancelled /\ spc = "retry"))
    /\ ctxDone' = TRUE
    /\ UNCHANGED <<WebsocketWatch, wpc, closeMid, wDone, instVars, supVars, out>>
    /\ UNCHANGED <<attrVars, pullVars, opVars>>

\* a Close that closes userChan itself as well
CloseStartAlsoCloses ==
    /\ wpc = "push"
    /\ closeMid < MaxClose
    /\ closeMid' = closeMid + 1
    /\ userCancelled' = TRUE
    /\ retryCancel' = (retryCancel \/ (~userCancelled /\ spc = "retry"))
    /\ ctxDone' = TRUE
    /\ userCloses' = userCloses + 1
    /\ UNCHANGED <<WebsocketWatch, wpc, wDone, instVars, cur, spc, sdf, tick, userChan,
                   dialAfterCancel, out>>
    /\ UNCHANGED <<attrVars, pullVars, opVars>>

\* reconnectWatcher.Close, first statement: w.cancel()
CloseStart ==
    /\ wpc = "push"
    /\ closeMid < MaxClose
    /\ closeMid' = closeMid + 1
    /\ userCancelled' = TRUE
    /\ retryCancel' = (retryCancel \/ (~userCancelled /\ spc = "retry"))
    /\ ctxDone' = TRUE
    /\ UNCHANGED <<WebsocketWatch, wpc, wDone, instVars, supVars, out>>
    /\ UNCHANGED <<attrVars, pullVars, opVars>>

\* reconnectWatcher.Close, second statement: w.watcher.Close(), the cancel of the
\* instance w.watcher points to at that moment
CloseInner ==
    /\ wpc = "push"
    /\ closeMid > 0
    /\ closeMid' = closeMid - 1
    /\ InstCancel(cur)
    /\ UNCHANGED <<WebsocketWatch, wpc, userCancelled, retryCancel, instVars, supVars, out>>
    /\ UNCHANGED <<attrVars, pullVars, opVars>>

\* keepalive goroutine: case <-w.ctx.Done(): w.conn.Close(); return
\* (with the deferred pingFrameWriter.Close and ticker.Stop)
KeepaliveDone(i) ==
    /\ kpc[i] = "run"
    /\ InstDone(i)
    /\ kpc' = [kpc EXCEPT ![i] = "done"]
    /\ conn' = [conn EXCEPT ![i] = "closed"]
    /\ UNCHANGED <<WebsocketWatch, wpc, callerVars, ctxVars, rpc, rdf, ch, chCloses,
                   rcvd, sent, readErr, nrecv, supVars, out>>
    /\ UNCHANGED <<attrVars, pullVars, opVars>>

\* keepalive goroutine: case <-ticker.C: w.pingServer(), its error dropped
KeepalivePing(i) ==
    /\ kpc[i] = "run"
    /\ UNCHANGED vars

\* receive loop: websocket.Message.Receive returns a message, which is decoded
Receive(i, ok) ==
    /\ rpc[i] = "recv"
    /\ conn[i] = "open"
    /\ nrecv < MaxFrames
    /\ nrecv' = nrecv + 1
    /\ rcvd' = [rcvd EXCEPT ![i] = Append(@, [id |-> nrecv + 1, ok |-> ok])]
    /\ rdf' = [rdf EXCEPT ![i] = RecvFrame([id |-> nrecv + 1, ok |-> ok])]
    /\ rpc' = [rpc EXCEPT ![i] = "send"]
    /\ UNCHANGED <<WebsocketWatch, wpc, callerVars, ctxVars, kpc, conn, ch, chCloses,
                   sent, readErr, supVars, out>>
    /\ UNCHANGED <<attrVars, pullVars, opVars>>

\* receive loop: Receive returns an error: the peer or the network dropped the
\* connection (remote), or the keepalive goroutine closed it (~remote)
ReceiveError(i, remote) ==
    /\ rpc[i] = "recv"
    /\ IF remote THEN conn[i] = "open" ELSE conn[i] = "closed"
    /\ readErr' = [readErr EXCEPT ![i] = TRUE]
    /\ rdf' = [rdf EXCEPT ![i] = ReadErrFrame]
    /\ rpc' = [rpc EXCEPT ![i] = "sendErr"]
    /\ UNCHANGED <<WebsocketWatch, wpc, callerVars, ctxVars, kpc, conn, ch, chCloses,
                   rcvd, sent, nrecv, supVars, out>>
    /\ UNCHANGED <<attrVars, pullVars, opVars>>

\* a send that drops the frame when the channel is full
ChanSendDropping(c, df) == IF Len(c) < ChanCap THEN {Append(c, df)} ELSE {c}

\* a send that never blocks: the channel takes the frame whatever it holds
ChanSendOverfull(c, df) == {Append(c, df)}

\* c <- df on a channel of capacity ChanCap: the contents after the send; no
\* outcome while the channel is full (the sender blocks)
ChanSend(c, df) == IF Len(c) < ChanCap THEN {Append(c, df)} ELSE {}

\* a receive loop that goes on reading after the frame of a read failure
AfterSendResume(p) == "recv"

\* position of the receive loop after w.ch <- df
AfterSend(p) == IF p = "send" THEN "recv" ELSE "close"

\* receive loop: w.ch <- df, blocking while the channel is full
Send(i) ==
    /\ rpc[i] \in {"send", "sendErr"}
    /\ \E c \in ChanSend(ch[i], rdf[i]) : ch' = [ch EXCEPT ![i] = c]
    /\ sent' = [sent EXCEPT ![i] = Append(@, rdf[i])]
    /\ rpc' = [rpc EXCEPT ![i] = AfterSend(rpc[i])]
    /\ UNCHANGED <<WebsocketWatch, wpc, callerVars, ctxVars, rdf, kpc, conn, chCloses,
                   rcvd, readErr, nrecv, supVars, out>>
    /\ UNCHANGED <<attrVars, pullVars, opVars>>

\* websocketWatcher.run returns: deferred close(w.ch), then deferred w.cancel()
RunReturn(i) ==
    /\ rpc[i] = "close"
    /\ chCloses' = [chCloses EXCEPT ![i] = @ + 1]
    /\ InstCancel(i)
    /\ rpc' = [rpc EXCEPT ![i] = "done"]
    /\ UNCHANGED <<WebsocketWatch, wpc, callerVars, rdf, kpc, conn, ch,
                   rcvd, sent, readErr, nrecv, supVars, out>>
    /\ UNCHANGED <<attrVars, pullVars, opVars>>

\* reconnectWatcher.run: df, ok := <-w.watcher.FrameChan() with ok
SupReceive ==
    /\ spc = "recv"
    /\ ch[cur] # <<>>
    /\ sdf' = Head(ch[cur])
    /\ ch' = [ch EXCEPT ![cur] = Tail(@)]
    /\ spc' = "send"
    /\ UNCHANGED <<WebsocketWatch, wpc, callerVars, ctxVars, rpc, rdf, kpc, conn,
                   chCloses, rcvd, sent, readErr, nrecv, cur, tick, userChan,
                   userCloses, dialAfterCancel, out>>
    /\ UNCHANGED <<attrVars, pullVars, opVars>>

\* a receive that reports a channel closed as soon as close was called on it
RecvNotOkEarly(c, closes) == closes > 0

\* df, ok := <-c yields !ok: c is closed and the frames buffered in it are taken
RecvNotOk(c, closes) == c = <<>> /\ closes > 0

\* reconnectWatcher.run: the inner channel is closed and drained (!ok): a new
\* ticker is made and the retry loop entered
SupInnerClosed ==
    /\ spc = "recv"
    /\ RecvNotOk(ch[cur], chCloses[cur])
    /\ spc' = "retry"
    /\ tick' = FALSE
    /\ UNCHANGED <<WebsocketWatch, wpc, callerVars, ctxVars, instVars, cur, sdf,
                   userChan, userCloses, dialAfterCancel, out>>
    /\ UNCHANGED <<attrVars, pullVars, opVars>>

\* reconnectWatcher.run: w.userChan <- df, blocking while the channel is full
SupSend ==
    /\ spc = "send"
    /\ \E c \in ChanSend(userChan, sdf) : userChan' = c
    /\ spc' = "recv"
    /\ UNCHANGED <<WebsocketWatch, wpc, callerVars, ctxVars, instVars, cur, sdf, tick,
                   userCloses, dialAfterCancel, out>>
    /\ UNCHANGED <<attrVars, pullVars, opVars>>

\* the retry ticker fires (time.NewTicker(time.Second))
TickFire ==
    /\ spc = "retry"
    /\ ~tick
    /\ tick' = TRUE
    /\ UNCHANGED <<WebsocketWatch, wpc, callerVars, ctxVars, instVars, cur, spc, sdf,
                   userChan, userCloses, dialAfterCancel, out>>
    /\ UNCHANGED <<attrVars, pullVars, opVars>>

\* the select of the retry loop may take case <-ticker.C
CanTick(tickReady, done) == tickReady

\* the select of the retry loop may take case <-w.ctx.Done()
CanExit(tickReady, done) == done

\* retry loop, case <-ticker.C: newWebsocketWatcher fails; continue
SupDialFail ==
    /\ spc = "retry"
    /\ CanTick(tick, ctxDone)
    /\ tick' = FALSE
    /\ dialAfterCancel' = (dialAfterCancel \/ retryCancel)
    /\ UNCHANGED <<WebsocketWatch, wpc, callerVars, ctxVars, instVars, cur, spc, sdf,
                   userChan, userCloses, out>>
    /\ UNCHANGED <<attrVars, pullVars, opVars>>

\* retry loop, case <-ticker.C: newWebsocketWatcher(w.ctx, w.cancel, ...) succeeds;
\* w.watcher.Close(); w.watcher = watcher; break loop
SupDialOk ==
    /\ spc = "retry"
    /\ CanTick(tick, ctxDone)
    /\ cur < MaxInst
    /\ tick' = FALSE
    /\ dialAfterCancel' = (dialAfterCancel \/ retryCancel)
    /\ StartInstance(cur + 1)
    /\ InstCancel(cur)
    /\ cur' = cur + 1
    /\ spc' = "recv"
    /\ UNCHANGED <<WebsocketWatch, wpc, callerVars, rdf, ch, chCloses, rcvd, sent,
                   readErr, nrecv, sdf, userChan, userCloses, out>>
    /\ UNCHANGED <<attrVars, pullVars, opVars>>

\* retry loop, case <-w.ctx.Done(): return, with the deferred close(w.userChan)
SupExit ==
    /\ spc = "retry"
    /\ CanExit(tick, ctxDone)
    /\ spc' = "done"
    /\ userCloses' = userCloses + 1
    /\ UNCHANGED <<WebsocketWatch, wpc, callerVars, ctxVars, instVars, cur, sdf, tick,
                   userChan, dialAfterCancel, out>>
    /\ UNCHANGED <<attrVars, pullVars, opVars>>

\* the consumer takes a frame from FrameChan() of the push watcher
Consume ==
    /\ wpc = "push"
    /\ userChan # <<>>
    /\ out' = Append(out, Head(userChan))
    /\ userChan' = Tail(userChan)
    /\ UNCHANGED <<WebsocketWatch, wpc, callerVars, ctxVars, instVars, cur, spc, sdf,
                   tick, userCloses, dialAfterCancel>>
    /\ UNCHANGED <<attrVars, pullVars, opVars>>

NextPush ==
    \/ WatchByTagFail
    \/ \E dialed \in BOOLEAN : WatchByTagDialFail(dialed)
    \/ WatchByTagPush
    \/ CtxCancel
    \/ CloseStart
    \/ CloseInner
    \/ \E i \in Insts : KeepaliveDone(i)
    \/ \E i \in Insts : KeepalivePing(i)
    \/ \E i \in Insts, ok \in BOOLEAN : Receive(i, ok)
    \/ \E i \in Insts, remote \in BOOLEAN : ReceiveError(i, remote)
    \/ \E i \in Insts : Send(i)
    \/ \E i \in Insts : RunReturn(i)
    \/ SupReceive
    \/ SupInnerClosed
    \/ SupSend
    \/ TickFire
    \/ SupDialFail
    \/ SupDialOk
    \/ SupExit
    \/ Consume

\* WatchByTag without WebsocketWatch: the GET answered 200; newHTTPWatcher starts
\* run, which starts the goroutine that waits for ctx.Done()
WatchByTagPull ==
    /\ wpc = "init"
    /\ ~WebsocketWatch
    /\ wpc' = "pull"
    /\ hpc' = "read"
    /\ gpc' = "wait"
    /\ UNCHANGED <<WebsocketWatch, callerVars, ctxVars, instVars, supVars, out,
                   hdf, hbuf, hch, hchCloses, rdCloses, hCloseN, hCloseMid>>
    /\ UNCHANGED <<attrVars, opVars>>

\* httpWatcher.Close, first statement: h.cancel()
HCloseStart ==
    /\ wpc = "pull"
    /\ hCloseN < MaxClose
    /\ hCloseN' = hCloseN + 1
    /\ hCloseMid' = hCloseMid + 1
    /\ userCancelled' = TRUE
    /\ retryCancel' = (retryCancel \/ (~userCancelled /\ spc = "retry"))
    /\ ctxDone' = TRUE
    /\ UNCHANGED <<WebsocketWatch, wpc, closeMid, wDone, instVars, supVars, out,
                   hpc, hdf, hbuf, hch, hchCloses, rdCloses, gpc>>
    /\ UNCHANGED <<attrVars, opVars>>

\* httpWatcher.Close, second statement: h.reader.Close()
HCloseInner ==
    /\ hCloseMid > 0
    /\ hCloseMid' = hCloseMid - 1
    /\ rdCloses' = rdCloses + 1
    /\ UNCHANGED <<WebsocketWatch, wpc, callerVars, ctxVars, instVars, supVars, out,
                   hpc, hdf, hbuf, hch, hchCloses, gpc, hCloseN>>
    /\ UNCHANGED <<attrVars, opVars>>

\* goroutine of httpWatcher.run: <-h.ctx.Done(); h.reader.Close()
HCtxWatch ==
    /\ gpc = "wait"
    /\ ctxDone
    /\ gpc' = "done"
    /\ rdCloses' = rdCloses + 1
    /\ UNCHANGED <<WebsocketWatch, wpc, callerVars, ctxVars, instVars, supVars, out,
                   hpc, hdf, hbuf, hch, hchCloses, hCloseN, hCloseMid>>
    /\ UNCHANGED <<attrVars, opVars>>

\* a read loop that sends a frame for a unit that does not decode as well
AfterReadSendsBad(kind) ==
    IF kind \in {"unit", "bad"} THEN "send"
    ELSE IF kind = "short" THEN "read"
    ELSE "close"

\* position of httpWatcher.run after h.reader.Read returned what `kind` says:
\* a whole unit that decodes (unit) or does not (bad), a part of a unit with
\* io.ErrShortBuffer (short), data with another error (dataErr), or n = 0 (eof)
AfterRead(kind) ==
    IF kind = "unit" THEN "send"
    ELSE IF kind = "short" THEN "read"
    ELSE "close"

\* httpWatcher.run: n, err := h.reader.Read(rbuf[:]) on the open stream
HRead(kind) ==
    /\ hpc = "read"
    /\ rdCloses = 0
    /\ nrecv < MaxFrames
    /\ nrecv' = nrecv + 1
    /\ hpc' = AfterRead(kind)
    /\ hbuf' = IF kind = "unit" THEN 0 ELSE IF kind = "eof" THEN hbuf ELSE hbuf + 1
    /\ hdf' = IF kind = "unit" THEN Decode([id |-> nrecv + 1, ok |-> TRUE]).df ELSE hdf
    /\ UNCHANGED <<WebsocketWatch, wpc, callerVars, ctxVars, rpc, rdf, kpc, conn, ch,
                   chCloses, rcvd, sent, readErr, supVars, out,
                   hch, hchCloses, rdCloses, gpc, hCloseN, hCloseMid>>
    /\ UNCHANGED <<attrVars, opVars>>

\* httpWatcher.run: Read on the closed stream returns no data: break
HReadClosed ==
    /\ hpc = "read"
    /\ rdCloses > 0
    /\ hpc' = "close"
    /\ UNCHANGED <<WebsocketWatch, wpc, callerVars, ctxVars, instVars, supVars, out,
                   hdf, hbuf, hch, hchCloses, rdCloses, gpc, hCloseN, hCloseMid>>
    /\ UNCHANGED <<attrVars, opVars>>

\* httpWatcher.run: h.ch <- df, blocking while the channel is full
HSend ==
    /\ hpc = "send"
    /\ \E c \in ChanSend(hch, hdf) : hch' = c
    /\ hpc' = "read"
    /\ UNCHANGED <<WebsocketWatch, wpc, callerVars, ctxVars, instVars, supVars, out,
                   hdf, hbuf, hchCloses, rdCloses, gpc, hCloseN, hCloseMid>>
    /\ UNCHANGED <<attrVars, opVars>>

\* httpWatcher.run returns: deferred close(h.ch), then deferred h.cancel()
HReturn ==
    /\ hpc = "close"
    /\ hchCloses' = hchCloses + 1
    /\ ctxDone' = TRUE
    /\ hpc' = "done"
    /\ UNCHANGED <<WebsocketWatch, wpc, callerVars, wDone, instVars, supVars, out,
                   hdf, hbuf, hch, rdCloses, gpc, hCloseN, hCloseMid>>
    /\ UNCHANGED <<attrVars, opVars>>

\* the consumer takes a frame from FrameChan() of the pull watcher
HConsume ==
    /\ wpc = "pull"
    /\ hch # <<>>
    /\ out' = Append(out, Head(hch))
    /\ hch' = Tail(hch)
    /\ UNCHANGED <<WebsocketWatch, wpc, callerVars, ctxVars, instVars, supVars,
                   hpc, hdf, hbuf, hchCloses, rdCloses, gpc, hCloseN, hCloseMid>>
    /\ UNCHANGED <<attrVars, opVars>>

ReadKinds == {"unit", "bad", "short", "dataErr", "eof"}

NextPull ==
    \/ WatchByTagPull
    \/ WatchByTagPullFail
    \/ HCloseStart
    \/ HCloseInner
    \/ HCtxWatch
    \/ \E kind \in ReadKinds : HRead(kind)
    \/ HReadClosed
    \/ HSend
    \/ HReturn
    \/ HConsume

Next == NextPush \/ NextPull

Spec == Init /\ [][Next]_vars

\* the attribute cache of a client as NewQueueClient returns it (WebsocketWatch: true)
InitClient == Init /\ WebsocketWatch = TRUE

SpecAttr == InitClient /\ [][NextAttr]_vars

(***************************************************************************)
(* Operations that resolve the identity headers from the snapshot: the     *)
(* synchronous operations and the pull watch through withIdentity, the     *)
(* push watch in WatchByTag itself; Attributes only refreshes the cache.   *)
(***************************************************************************)
OpKinds == {"attrs", "sync", "pull", "push"}

\* the force argument the operation passes to getAttr
OpForce(kind) == kind \in {"attrs", "push"}

\* attr[key]: the header name the snapshot holds for key, "" when it holds none
HeaderOf(a, key) == IF key \in a.keys THEN key ELSE ""

\* WatchByTag with WebsocketWatch goes on to dial when getAttr(true) returned no
\* error: header.Set(uidHeader, q.user.Uid()) is called whatever uidHeader is
PushIdentity(a, err) == ~err

\* withIdentity returns nil: getAttr(false) returned no error and the snapshot
\* holds a header name for the user id
WithIdentity(a, err) == ~err /\ HeaderOf(a, "uid") # ""

\* does the operation go on to send its request (sync, pull) or handshake (push)
Proceeds(kind, a, err) ==
    CASE kind = "attrs" -> FALSE
      [] kind = "push" -> PushIdentity(a, err)
      [] OTHER -> WithIdentity(a, err)

\* caller c starts an operation, which calls getAttr
OpStart(c, kind) ==
    /\ cop[c] = "none"
    /\ kind = "pull" => ~WebsocketWatch
    /\ kind = "push" => WebsocketWatch
    /\ GetAttrEnter(c, OpForce(kind))
    /\ cop' = [cop EXCEPT ![c] = kind]
    /\ csent' = [csent EXCEPT ![c] = FALSE]
    /\ copErr' = [copErr EXCEPT ![c] = FALSE]
    /\ UNCHANGED <<watchVars, put>>

\* getAttr has returned to the operation of caller c: it fails on the identity,
\* or sends its request or handshake, which the server answers well (ok) or not
OpFinish(c, ok) ==
    /\ At(c, {"idle"})
    /\ cop[c] # "none"
    /\ cop' = [cop EXCEPT ![c] = "none"]
    /\ csent' = [csent EXCEPT ![c] = Proceeds(cop[c], cret[c], cerr[c])]
    /\ copErr' = [copErr EXCEPT ![c] =
                    IF cop[c] = "attrs" THEN cerr[c]
                    ELSE ~Proceeds(cop[c], cret[c], cerr[c]) \/ ~ok]
    /\ UNCHANGED <<attrVars, watchVars, put>>

NextOps ==
    \E c \in Callers :
          \/ \E kind \in OpKinds : OpStart(c, kind)
          \/ GetAttrCheck(c)
          \/ OnceFast(c)
          \/ OnceLock(c)
          \/ OnceSlow(c)
          \/ ObtainStart(c)
          \/ \E keys \in ServerKeys : ObtainOk(c, keys)
          \/ ObtainFail(c)
          \/ OnceStoreDone(c)
          \/ OnceUnlock(c)
          \/ GetAttrReturn(c)
          \/ GetAttrDefer(c)
          \/ \E ok \in BOOLEAN : OpFinish(c, ok)

SpecOps == Init /\ [][NextOps]_vars

(***************************************************************************)
(* PutWithPriority: one call, from its identity step to its results.       *)
(***************************************************************************)
\* characters a response body is made of: decimal digits and a letter
BodyChars == {"0", "1", "8", "x"}

RECURSIVE SeqsUpTo(_)
\* the bodies of at most n characters
SeqsUpTo(n) ==
    IF n = 0 THEN {<<>>}
    ELSE SeqsUpTo(n - 1) \cup
         {Append(b, chr) : b \in {x \in SeqsUpTo(n - 1) : Len(x) = n - 1}, chr \in BodyChars}

Bodies == SeqsUpTo(MaxBody)

\* status codes the server answers with
Statuses == {200, 201, 204, 500}

\* values of the X-Eas-Queueservice-Request-Id response header ("" when absent)
RequestIds == {"", "rid-1"}

\* the value of a character as a digit; no digit of any base for a letter
DigitOf(chr) == CASE chr = "0" -> 0 [] chr = "1" -> 1 [] chr = "8" -> 8 [] OTHER -> 99

RECURSIVE ParseDigits(_, _, _)
\* the digit loop of strconv.ParseUint: n*base + d over the characters, -1 for a
\* character that is no digit of the base
ParseDigits(str, base, n) ==
    IF str = <<>> THEN n
    ELSE IF DigitOf(Head(str)) >= base THEN -1
    ELSE ParseDigits(Tail(str), base, n * base + DigitOf(Head(str)))

\* strconv.ParseUint(str, 0, 64): the base comes from the prefix, "0x" for 16
\* and a leading "0" for 8, 10 otherwise; -1 stands for the error
ParseUint(str) ==
    IF str = <<>> THEN -1
    ELSE IF Head(str) = "0"
      THEN IF Len(str) >= 3 /\ str[2] = "x"
             THEN ParseDigits(SubSeq(str, 3, Len(str)), 16, 0)
             ELSE ParseDigits(Tail(str), 8, 0)
      ELSE ParseDigits(str, 10, 0)

\* the status codes PutWithPriority accepts: http.StatusOK, http.StatusNoContent
Accepted(status) == status \in {200, 204}

\* PutWithPriority up to q.httpClient.Do: withIdentity and withPriority both
\* return nil and the request is sent
PutSend ==
    /\ put.pc = "idle"
    /\ put' = [put EXCEPT !.pc = "sent", !.nsent = @ + 1]
    /\ UNCHANGED <<attrVars, watchVars, cop, csent, copErr>>

\* withIdentity or withPriority returns an error: return 0, requestId, err
PutAbort ==
    /\ put.pc = "idle"
    /\ put' = [put EXCEPT !.pc = "done", !.err = TRUE]
    /\ UNCHANGED <<attrVars, watchVars, cop, csent, copErr>>

\* q.httpClient.Do or io.ReadAll returns an error: return 0, requestId, err
PutNoReply ==
    /\ put.pc = "sent"
    /\ put' = [put EXCEPT !.pc = "done", !.err = TRUE]
    /\ UNCHANGED <<attrVars, watchVars, cop, csent, copErr>>

\* the results of PutWithPriority for a response that was read in full
PutResult(status, body, rid) ==
    IF ~Accepted(status)
      THEN [index |-> 0, requestId |-> rid, err |-> TRUE, msg |-> body]
    ELSE IF ParseUint(body) < 0
      THEN [index |-> 0, requestId |-> rid, err |-> TRUE, msg |-> <<>>]
    ELSE [index |-> ParseUint(body), requestId |-> rid, err |-> FALSE, msg |-> <<>>]

\* the server answers and the body is read: status check, then ParseUint
PutReply(status, body, rid) ==
    /\ put.pc = "sent"
    /\ put' = [put EXCEPT !.pc = "done", !.replied = TRUE, !.status = status,
                          !.body = body, !.rid = rid,
                          !.index = PutResult(status, body, rid).index,
                          !.requestId = PutResult(status, body, rid).requestId,
                          !.err = PutResult(status, body, rid).err,
                          !.msg = PutResult(status, body, rid).msg]
    /\ UNCHANGED <<attrVars, watchVars, cop, csent, copErr>>

NextPut ==
    \/ PutSend
    \/ PutAbort
    \/ PutNoReply
    \/ \E status \in Statuses, body \in Bodies, rid \in RequestIds :
          PutReply(status, body, rid)

SpecPut == InitClient /\ [][NextPut]_vars

(***************************************************************************)
(* Claims about the attribute cache (checked under SpecAttr).              *)
(***************************************************************************)
\* caller c holds the result of a call that has evaluated its return
Returned(c) == ccalled[c] \/ cpc[c] = "defer"

\* the last call of c has completed
Completed(c) == ccalled[c] /\ cpc[c] = "idle"

\* C8: as long as only getAttr(false) has been called on the initially Empty
\* cache and no fetch has failed, at most one obtainAttr round trip has been made,
\* and every call that has returned returned the snapshot of that one fetch.
C8_OneFetchSameSnapshot ==
    (~anyForce /\ ~anyFail) =>
        /\ nfetch <= 1
        /\ \A c \in Callers :
              Returned(c) => /\ nfetch = 1
                             /\ cret[c] = attr
                             /\ cret[c].ver = 1
                             /\ ~cret[c].nil

\* C8 witness: two concurrent getAttr(false) calls have both completed, one ran
\* the fetch and the other waited for it inside the Once.
C8_Witness ==
    /\ ~anyForce /\ ~anyFail /\ nfetch = 1
    /\ \E c1, c2 \in Callers :
          /\ Completed(c1) /\ cpath[c1] = "fetch"
          /\ Completed(c2) /\ cpath[c2] = "waited"
          /\ cret[c1] = cret[c2] /\ cret[c1].ver = 1

\* C9 (as claimed): whenever a getAttr call that got a fetch error returns, the
\* cache is left as Empty: no snapshot is held and the Once is armed again, so
\* that the next getAttr(false) fetches.
C9_FailedCallLeavesEmpty ==
    [][\A c \in Callers :
          (cpc[c] = "defer" /\ cpc'[c] = "idle" /\ cerr[c]) =>
              (AttrLen(attr') = 0 /\ ~once'.done)]_vars

\* C10 (as claimed): every getAttr(true) call that has returned ran obtainAttr.
C10_ForceAlwaysFetches ==
    \A c \in Callers :
        (Returned(c) /\ cpc[c] \in {"defer", "idle"} /\ cforce[c]) => cpath[c] = "fetch"

\* C11 (as claimed): whenever a getAttr(true) call whose fetch failed returns, no
\* snapshot is cached: q.attr is nil, whatever the cache held before the call.
C11_ForcedFailureLeavesEmpty ==
    [][\A c \in Callers :
          (cpc[c] = "defer" /\ cpc'[c] = "idle" /\ cforce[c] /\ cerr[c]) =>
              attr' = NilAttr]_vars

\* C12 (as claimed): when only getAttr(false) has been called and the one fetch
\* made so far failed, every call that has returned returned the fetch error.
C12_AllSeeFetchError ==
    (~anyForce /\ anyFail /\ nfetch = 1) =>
        \A c \in Callers :
            (Returned(c) /\ cpc[c] \in {"defer", "idle"}) => cerr[c]

\* callers whose obtainAttr round trip is in flight
InFlight == {c \in Callers : cpc[c] \in {"waitO", "waitF"}}

\* C19 (as claimed): at no point are two obtainAttr fetches of the client in flight.
C19_FetchesMutuallyExclusive == Cardinality(InFlight) <= 1

\* C13 (as claimed): an operation that needs the identity and whose getAttr
\* returned a snapshot without a header name for the user id returns an error
\* and has sent no request and no handshake.
C13_IdentityRequired ==
    [][\A c \in Callers :
          (cop[c] \in {"sync", "pull", "push"} /\ cop'[c] = "none"
              /\ HeaderOf(cret[c], "uid") = "") =>
                 (copErr'[c] /\ ~csent'[c])]_vars

\* a body of decimal digits
IsDecimal(str) == str # <<>> /\ \A k \in 1..Len(str) : DigitOf(str[k]) < 10

RECURSIVE DecimalValue(_)
\* the number a body of decimal digits denotes
DecimalValue(str) ==
    IF str = <<>> THEN 0
    ELSE 10 * DecimalValue(SubSeq(str, 1, Len(str) - 1)) + DigitOf(str[Len(str)])

\* C14 (as claimed): PutWithPriority sends at most one request; answered with an
\* accepted status and a decimal body it returns the number the body denotes,
\* the request id header and no error; answered with another status it returns
\* index 0 and an error that carries the body.
C14_PutResults ==
    /\ put.nsent <= 1
    /\ (put.pc = "done" /\ put.replied) =>
          IF Accepted(put.status)
            THEN IsDecimal(put.body) =>
                   /\ put.index = DecimalValue(put.body)
                   /\ put.requestId = put.rid
                   /\ ~put.err
            ELSE put.err /\ put.index = 0 /\ put.msg = put.body

(***************************************************************************)
(* Fairness the scheduling of the code gives: every goroutine of the       *)
(* program that can take a step takes one, time passes (the retry ticker   *)
(* fires), a select that stays ready for <-w.ctx.Done() over and over      *)
(* takes that case at some point, and the consumer keeps draining.  The    *)
(* peer, the network and the caller owe nothing.                           *)
(***************************************************************************)
ProgramFairness ==
    /\ \A i \in Insts : WF_vars(KeepaliveDone(i))
    /\ \A i \in Insts : WF_vars(ReceiveError(i, FALSE))
    /\ \A i \in Insts : WF_vars(Send(i))
    /\ \A i \in Insts : WF_vars(RunReturn(i))
    /\ WF_vars(CloseInner)
    /\ WF_vars(SupReceive)
    /\ WF_vars(SupInnerClosed)
    /\ WF_vars(SupSend)
    /\ WF_vars(TickFire)
    /\ SF_vars(SupExit)
    /\ WF_vars(HCloseInner)
    /\ WF_vars(HCtxWatch)
    /\ WF_vars(HReadClosed)
    /\ WF_vars(HSend)
    /\ WF_vars(HReturn)

Fairness ==
    /\ ProgramFairness
    /\ WF_vars(Consume)
    /\ WF_vars(HConsume)

LiveSpec == Init /\ [][Next]_vars /\ Fairness

\* the goroutines of the program are scheduled fairly; the consumer is the
\* caller's code and may stop taking frames, as one that has called Close does
LiveSpecProgram == Init /\ [][Next]_vars /\ ProgramFairness

(***************************************************************************)
(* Claims about the push watcher (checked under Spec, C7 under LiveSpec).  *)
(***************************************************************************)
\* the frame reconnectWatcher.run holds between its receive and its send
SupHeld == IF spc = "send" THEN <<sdf>> ELSE <<>>

\* the frame the receive loop of instance i holds before its send
RecvHeld(i) == IF rpc[i] \in {"send", "sendErr"} THEN <<rdf[i]>> ELSE <<>>

\* the frames a sequence of well-formed raw messages stands for
FramesOf(msgs) == [k \in 1..Len(msgs) |-> [Index |-> msgs[k].id, Message |-> ""]]

AllOk(msgs) == \A k \in 1..Len(msgs) : msgs[k].ok

\* C1 (as claimed): userChan is closed, and the supervisor gone, only after the
\* caller has called Close or cancelled its context.
C1_OutputClosedOnlyByCaller ==
    (userCloses > 0 \/ spc = "done") => userCancelled

\* C2: while the first transport has had no read failure and has received only
\* well-formed messages, the frames the consumer has taken, followed by those
\* still on their way (userChan, the supervisor's df, w.ch, the receive loop's
\* df), are exactly the frames of the messages received, in the order received.
C2_InOrderNoLoss ==
    (wpc = "push" /\ cur = 1 /\ ~readErr[1] /\ AllOk(rcvd[1])) =>
        out \o userChan \o SupHeld \o ch[1] \o RecvHeld(1) = FramesOf(rcvd[1])

\* C2 witness: more frames than a channel holds have all reached the consumer,
\* with no disconnect.
C2_Witness ==
    /\ wpc = "push" /\ cur = 1 /\ ~readErr[1] /\ AllOk(rcvd[1])
    /\ Len(rcvd[1]) = MaxFrames
    /\ MaxFrames > ChanCap
    /\ out = FramesOf(rcvd[1])

\* C3 (as claimed): while the caller has not cancelled, a supervisor in the
\* retry state stays there (a failed attempt, a tick) or resumes forwarding
\* from a replacement; it does not give up.
C3_RetriesUntilReconnected ==
    [][(spc = "retry" /\ ~userCancelled /\ ~userCancelled') =>
           spc' \in {"retry", "recv"}]_vars

\* C4 (as claimed): no connection attempt is started after the caller's
\* cancellation fired while the supervisor was in the retry state.
C4_NoDialAfterCancel == ~dialAfterCancel

\* C5: every message a transport instance received stands for exactly one frame,
\* at its place in the order: a well-formed one for its intact frame, a
\* malformed one for a frame that carries only the diagnostic message; and the
\* receive loop ends and closes the delivery channel only after a read failure,
\* as userChan is closed only after one.
C5_DecodeFailureInBand ==
    /\ userCloses > 0 => \E i \in Insts : readErr[i]
    /\ \A i \in Insts :
        LET pushed == sent[i] \o RecvHeld(i) IN
        /\ Len(pushed) = Len(rcvd[i]) + (IF readErr[i] THEN 1 ELSE 0)
        /\ \A k \in 1..Len(rcvd[i]) :
              IF rcvd[i][k].ok
                THEN pushed[k] = [Index |-> rcvd[i][k].id, Message |-> ""]
                ELSE pushed[k].Message = "failed to decode message" /\ pushed[k].Index = 0
        /\ (chCloses[i] > 0 \/ rpc[i] \in {"sendErr", "close", "done"}) => readErr[i]

\* C5 witness: a malformed message and then a well-formed one were received on a
\* connection that is still open, and the consumer has got the diagnostic frame
\* followed by the intact frame.
C5_Witness ==
    /\ wpc = "push" /\ Len(rcvd[1]) >= 2 /\ Len(out) >= 2
    /\ ~rcvd[1][1].ok /\ rcvd[1][2].ok
    /\ out[1] = [Index |-> 0, Message |-> "failed to decode message"]
    /\ out[2] = [Index |-> rcvd[1][2].id, Message |-> ""]
    /\ chCloses[1] = 0 /\ userCloses = 0 /\ rpc[1] = "recv"

C7_CancelPropagates ==
    (wpc = "push" /\ userCancelled) ~>
        (userCloses = 1 /\ conn[cur] = "closed" /\ kpc[cur] = "done")

\* the frames a transport instance puts on its channel for what it has received
InstFrames(i) ==
    [k \in 1..Len(rcvd[i]) |-> RecvFrame(rcvd[i][k])]
        \o (IF readErr[i] THEN <<ReadErrFrame>> ELSE <<>>)

RECURSIVE FramesUpTo(_)
\* the frames of the instances 1..n, one instance after the other
FramesUpTo(n) == IF n = 0 THEN <<>> ELSE FramesUpTo(n - 1) \o InstFrames(n)

\* C15: the frames the consumer has taken, followed by those on their way from
\* the current transport, are the frames of the first transport in the order it
\* received them, then those of the second, and so on up to the current one.
C15_OutputIsConcatenation ==
    wpc = "push" =>
        out \o userChan \o SupHeld \o ch[cur] \o RecvHeld(cur) = FramesUpTo(cur)

\* C15 witness: the consumer has taken the frames of the first transport, the
\* frame of its read failure last, and then a frame of the replacement.
C15_Witness ==
    /\ wpc = "push" /\ cur = 2
    /\ Len(rcvd[1]) >= 1 /\ Len(rcvd[2]) >= 1
    /\ out = InstFrames(1) \o InstFrames(2)

\* positions of the frame of the read failure in what instance i has sent
ErrFramesSent(i) == {k \in 1..Len(sent[i]) : sent[i][k] = ReadErrFrame}

\* C16: after a read failure the receive loop reads no more; when it has sent on
\* from there it has sent exactly one frame of the read failure, as its last
\* frame; and w.ch is closed only after that frame was sent.
C16_OneTerminalFrame ==
    \A i \in Insts :
        /\ readErr[i] => rpc[i] \in {"sendErr", "close", "done"}
        /\ rpc[i] \in {"none", "recv", "send", "sendErr"} =>
              (ErrFramesSent(i) = {} /\ chCloses[i] = 0)
        /\ rpc[i] \in {"close", "done"} =>
              (ErrFramesSent(i) = {Len(sent[i])} /\ Len(sent[i]) = Len(rcvd[i]) + 1)
        /\ chCloses[i] > 0 => rpc[i] = "done"

\* C16 witness: a transport that had received frames got a read failure from the
\* peer, and its run has ended with the channel closed.
C16_Witness ==
    /\ readErr[1] /\ rpc[1] = "done" /\ chCloses[1] = 1
    /\ Len(rcvd[1]) >= 2
    /\ ~userCancelled

\* frames of received messages among those the consumer has taken
Delivered == Len(SelectSeq(out, LAMBDA f : f # ReadErrFrame))

\* s is t or a sequence t starts with
IsPrefix(s, t) == Len(s) <= Len(t) /\ s = SubSeq(t, 1, Len(s))

\* C17: no channel ever holds more than ChanCap frames; what the consumer has
\* taken is always the frames received so far, in order, up to some point; and
\* with a consumer that keeps draining, the n-th message received is delivered.
C17_BoundedNoDrop ==
    /\ [](/\ Len(userChan) <= ChanCap
          /\ Len(hch) <= ChanCap
          /\ \A i \in Insts : Len(ch[i]) <= ChanCap)
    /\ [](wpc = "push" => IsPrefix(out, FramesUpTo(cur)))
    /\ \A n \in 1..MaxFrames : (wpc = "push" /\ nrecv >= n) ~> (Delivered >= n)

\* C17 witness: the consumer has taken nothing, userChan and w.ch are full, and
\* the supervisor and the receive loop each hold a frame they cannot send.
C17_Witness ==
    /\ wpc = "push" /\ out = <<>> /\ nrecv = MaxFrames
    /\ Len(userChan) = ChanCap /\ spc = "send"
    /\ Len(ch[1]) = ChanCap /\ RecvHeld(1) # <<>>

\* C18 (as claimed): a transport instance that got a read failure or whose
\* context was cancelled ends: connection closed, w.ch closed once, receive loop
\* and keepalive loop returned.
C18_BothLoopsEnd ==
    \A i \in Insts :
        (rpc[i] # "none" /\ (readErr[i] \/ InstDone(i))) ~>
            (conn[i] = "closed" /\ chCloses[i] = 1 /\ rpc[i] = "done" /\ kpc[i] = "done")

\* the frame httpWatcher.run holds between its decode and its send
HHeld == IF hpc = "send" THEN <<hdf>> ELSE <<>>

\* the frames the pull watcher has produced: taken, in h.ch, or about to be sent
PullFrames == out \o hch \o HHeld

\* every frame of a pull watcher is a decoded unit, and the frames are in stream
\* order; no push transport and no supervisor exists next to it; h.ch is closed
\* exactly when run has returned
PullShape ==
    wpc = "pull" =>
        /\ \A k \in 1..Len(PullFrames) :
              PullFrames[k].Message = "" /\ PullFrames[k].Index >= 1
        /\ \A k \in 1..(Len(PullFrames) - 1) :
              PullFrames[k].Index < PullFrames[k + 1].Index
        /\ cur = 0 /\ spc = "none"
        /\ \A i \in Insts : rpc[i] = "none" /\ conn[i] = "none"
        /\ (hpc = "done") = (hchCloses = 1)
        /\ hchCloses <= 1

\* once the read loop has left its loop it stays out of it, reads nothing and
\* produces no frame any more
PullStaysEnded ==
    [][(hpc \in {"close", "done"}) =>
          (hpc' \in {"close", "done"}
              /\ Len(out' \o hch') = Len(out \o hch)
              /\ nrecv' = nrecv)]_vars

PullStopped == hpc = "done" /\ gpc = "done" /\ hCloseMid = 0

\* C21 (as claimed): when a pull watcher has stopped, Close has been called on
\* its reader exactly once.
C21_ReaderClosedOnce == PullStopped => rdCloses = 1

\* WatchByTag has returned an error
WatchFailed == wpc \in {"failed", "failedDial", "failedPull"}

\* a transport, a supervisor or a pull watcher of this WatchByTag call exists
SomethingRuns ==
    \/ spc # "none" \/ cur # 0 \/ tick
    \/ \E i \in Insts : rpc[i] # "none" \/ kpc[i] # "none"
    \/ hpc # "none" \/ gpc # "none"

\* C22: a WatchByTag call that returned an error has its derived context
\* cancelled and nothing running, then and ever after: no transport, no
\* supervisor, no retry, no pull watcher; a push watcher is returned exactly with
\* the first transport and the supervisor started, a pull watcher exactly with
\* its read loop started.
C22_WatcherIffFirstAttempt ==
    /\ WatchFailed => (ctxDone /\ ~SomethingRuns)
    /\ (wpc = "push") = (rpc[1] # "none")
    /\ (wpc = "push") = (spc # "none")
    /\ (wpc = "pull") = (hpc # "none")
    /\ wpc = "init" => ~SomethingRuns

\* C22 witness: a push WatchByTag whose handshake was made failed in
\* newWebsocketWatcher: it returned an error with the derived context cancelled
\* and nothing started.
C22_Witness ==
    /\ wpc = "failedDial" /\ conn[1] = "open"
    /\ ctxDone /\ ~SomethingRuns
====
